---- MODULE Spec2Model ----
(***************************************************************************)
(* Model of the training orchestration of AlekseySh/master_work:           *)
(*   src/utils/common.py  OnlineAvg, Stopper                               *)
(*   src/trainer.py       Trainer.train_epoch / test / train               *)
(* Metric values (accuracies, deltas) are fixed-point integers in units of *)
(* 0.01, so 0.62 is 62.                                                    *)
(***************************************************************************)
EXTENDS Integers, Sequences, FiniteSets, TLC

VARIABLES
    stopper,    \* the Stopper object: n_observation, delta, cur_val, value_max, num_fails
    fed,        \* history: the values passed to Stopper.update, in order
    answers,    \* history: the results of check_criterion(), one per update
    online,     \* the OnlineAvg object: avg (an exact fraction num/den) and n
    xs,         \* history: the values passed to OnlineAvg.update, in order
    tcall,      \* Trainer.test: self.batch_size, n_tta and len(loader.dataset) of the call
    tpc,        \* Trainer.test: position in the method
    loader_bs,  \* Trainer.test: loader.batch_size
    t_i,        \* Trainer.test: index i of the next batch of enumerate(loader)
    written,    \* Trainer.test: for every row of labels/preds/confs, the batches that assigned it
    sizes,      \* history: the number of samples in each batch the loader yielded
    cfg,        \* Trainer.train: self.test_freq and the argument n_max_epoch
    pc,         \* Trainer.train: position in the method
    i,          \* Trainer.train: the loop variable of line 129
    batch,      \* Trainer.train_epoch: batches of the loader consumed in this epoch
    i_global,   \* self.i_global
    params,     \* the live model parameters, named by the number of optimizer steps behind them
    acc,        \* Trainer.train: accuracy of the last evaluation of the loop
    acc_max,    \* Trainer.train: acc_max
    best_epoch, \* Trainer.train: best_epoch
    epoch_ckpt, \* the files epoch{i}.pth.tar: epoch index -> saved parameters and meta
    best_ckpt,  \* the file best.pth.tar, None while this run has not written it
    acc_tta,    \* Trainer.train: acc_tta
    ret,        \* Trainer.train: the returned value
    evals,      \* history: epoch and accuracy of every evaluation of the loop
    log,        \* history: loop exit taken, reloads and TTA evaluations performed
    writer      \* self.writer: number of points logged, step of the last point and of the last 'Loss' point

vars == <<stopper, fed, answers, online, xs, tcall, tpc, loader_bs, t_i, written, sizes,
          cfg, pc, i, batch, i_global, params, acc, acc_max, best_epoch, epoch_ckpt,
          best_ckpt, acc_tta, ret, evals, log, writer>>
trainVars == <<cfg, pc, i, batch, i_global, params, acc, acc_max, best_epoch, epoch_ckpt,
               best_ckpt, acc_tta, ret, evals, log, writer>>
testVars == <<tcall, tpc, loader_bs, t_i, written, sizes>>
stopperVars == <<stopper, fed, answers>>
avgVars == <<online, xs>>

(***************************************************************************)
(* Bounds and input domains                                                *)
(***************************************************************************)
MaxUpdates == 5
MaxNObservation == 3
MaxDelta == 2
StopperValues == {0, 48, 49, 50, 51}
MaxAvgUpdates == 4
AvgValues == {1, 2, 4, 6}
MaxBatchSize == 4
MaxTta == 3
MaxSamples == 6
MaxEpoch == 5
MaxTestFreq == 2
NumTrainBatches == 2
TrainDeltas == {-1, 0, 1}
AccValues == {0, 59, 60, 61, 62}

\* an attribute that holds None is the empty sequence, one that holds x is <<x>>
None == <<>>
Some(x) == <<x>>
The(opt) == opt[1]

Max2(a, b) == IF a >= b THEN a ELSE b
Min2(a, b) == IF a <= b THEN a ELSE b

(***************************************************************************)
(* OnlineAvg (src/utils/common.py:1-9).  avg is a Python float; it is kept *)
(* here as the exact fraction num/den in lowest terms, which is the float  *)
(* value whenever every intermediate result is a dyadic rational.          *)
(***************************************************************************)
RECURSIVE GCD(_, _)
GCD(a, b) == IF b = 0 THEN a ELSE GCD(b, a % b)

\* the fraction p/q (p >= 0, q > 0) in lowest terms
Frac(p, q) == LET g == GCD(p, q) IN [num |-> p \div g, den |-> q \div g]

\* OnlineAvg.__init__
NewOnlineAvg == [avg |-> Frac(0, 1), n |-> 0]

AvgUpdateNoWeight(o, new_x) ==
    LET n == o.n + 1
    IN [avg |-> Frac(o.avg.num + new_x * o.avg.den, o.avg.den * n), n |-> n]

\* OnlineAvg.update: n += 1; avg = (avg * (n - 1) + new_x) / n
AvgUpdate(o, new_x) ==
    LET n == o.n + 1
    IN [avg |-> Frac(o.avg.num * (n - 1) + new_x * o.avg.den, o.avg.den * n),
        n |-> n]

\* the OnlineAvg variables while no OnlineAvg is being driven
AvgIdle == online = NewOnlineAvg /\ xs = <<>>

(***************************************************************************)
(* Stopper (src/utils/common.py:12-39)                                     *)
(***************************************************************************)
\* Stopper.__init__
NewStopper(n_observation, delta) ==
    [n_observation |-> n_observation, delta |-> delta,
     cur_val |-> None, value_max |-> 0, num_fails |-> 0]

UpdateMaxAlways(s) == [s EXCEPT !.value_max = The(s.cur_val)]

\* Stopper._update_max
UpdateMax(s) ==
    IF s.value_max < The(s.cur_val) THEN [s EXCEPT !.value_max = The(s.cur_val)] ELSE s

CountFailsStrict(s) ==
    IF s.value_max - The(s.cur_val) > s.delta
    THEN [s EXCEPT !.num_fails = s.num_fails + 1]
    ELSE [s EXCEPT !.num_fails = 0]

\* Stopper._count_fails
CountFails(s) ==
    IF s.value_max - The(s.cur_val) >= s.delta
    THEN [s EXCEPT !.num_fails = s.num_fails + 1]
    ELSE [s EXCEPT !.num_fails = 0]

\* Stopper.update: cur_val is set, then _update_max, then _count_fails
StopperUpdate(s, cur_val) ==
    CountFails(UpdateMax([s EXCEPT !.cur_val = Some(cur_val)]))

\* Stopper.check_criterion
CheckCriterion(s) == s.num_fails = s.n_observation

(***************************************************************************)
(* The logging sink self.writer (src/trainer.py:47)                        *)
(***************************************************************************)
\* SummaryWriter(self.work_dir / 'board') before any point is logged
NoPoints == [n_points |-> 0, step |-> 0, n_loss |-> 0, loss_step |-> 0]

\* self.writer.add_scalar(name, value, step) and add_image(name, grid, step)
LogPoint(w, name, step) ==
    [n_points |-> w.n_points + 1,
     step |-> step,
     n_loss |-> IF name = "Loss" THEN w.n_loss + 1 ELSE w.n_loss,
     loss_step |-> IF name = "Loss" THEN step ELSE w.loss_step]

\* lines 123-124: Trainer.test logs 'Worst_mistakes', then 'Accuracy'
LogTest(w, step) == LogPoint(LogPoint(w, "Worst_mistakes", step), "Accuracy", step)

(***************************************************************************)
(* Trainer.test (src/trainer.py:79-125): filling the result arrays         *)
(***************************************************************************)
\* int(self.batch_size / n_tta) for a positive batch size and n_tta > 0
IntDiv(a, b) == a \div b

\* lines 80-87: the batch size handed to the DataLoader
LoaderBatchSize(batch_size, n_tta) ==
    IF n_tta # 0 THEN IntDiv(batch_size, n_tta) ELSE batch_size

\* len(loader): the loader keeps the last, short batch
NumBatches(n_samples, b) == (n_samples + b - 1) \div b

\* the number of samples in batch i of the loader
BatchLen(n_samples, b, j) == Min2(b, n_samples - j * b)

IStartConfigured(j, b, batch_size) == j * batch_size

\* line 113: i_start = i * loader.batch_size
IStart(j, b, batch_size) == j * b

\* line 114: i_stop = min(i_start + loader.batch_size, n_samples)
IStop(i_start, b, n_samples) == Min2(i_start + b, n_samples)

\* the rows of an array of n rows that the slice [lo: hi] selects
Slice(lo, hi, n) == {k \in 0..(n - 1) : lo <= k /\ k < hi}

\* numpy accepts arr[lo: hi] = m when m has as many rows as the slice, or one
Assignable(rows, slice) == rows = Cardinality(slice) \/ rows = 1

\* the Trainer.test variables while no evaluation is being driven
TestIdle ==
    /\ tcall = [batch_size |-> 1, n_tta |-> 0, n_samples |-> 1]
    /\ tpc = "idle"
    /\ loader_bs = 0
    /\ t_i = 0
    /\ written = <<>>
    /\ sizes = <<>>

\* lines 80-102: choose the batch size, build the loader, allocate the arrays
TestStart ==
    /\ tpc = "start"
    /\ loader_bs' = LoaderBatchSize(tcall.batch_size, tcall.n_tta)
    /\ IF loader_bs' <= 0
       THEN tpc' = "error" /\ UNCHANGED written    \* DataLoader raises ValueError
       ELSE /\ tpc' = "loop"
            /\ written' = [k \in 0..(tcall.n_samples - 1) |-> {}]
    /\ UNCHANGED <<tcall, t_i, sizes, stopperVars, avgVars, trainVars>>

\* lines 104-118: one iteration of the loop over the batches
TestBatch ==
    /\ tpc = "loop"
    /\ t_i < NumBatches(tcall.n_samples, loader_bs)
    /\ LET rows == BatchLen(tcall.n_samples, loader_bs, t_i)
           i_start == IStart(t_i, loader_bs, tcall.batch_size)
           i_stop == IStop(i_start, loader_bs, tcall.n_samples)
           slice == Slice(i_start, i_stop, tcall.n_samples)
       IN /\ sizes' = Append(sizes, rows)
          /\ IF Assignable(rows, slice)
             THEN /\ written' = [k \in DOMAIN written |->
                                   IF k \in slice THEN written[k] \cup {t_i}
                                   ELSE written[k]]
                  /\ t_i' = t_i + 1
                  /\ tpc' = "loop"
             ELSE /\ tpc' = "error"                 \* numpy raises ValueError
                  /\ UNCHANGED <<written, t_i>>
    /\ UNCHANGED <<tcall, loader_bs, stopperVars, avgVars, trainVars>>

\* lines 120-125: the loop is over; the metrics are computed and returned
TestFinish ==
    /\ tpc = "loop"
    /\ t_i = NumBatches(tcall.n_samples, loader_bs)
    /\ tpc' = "done"
    /\ writer' = LogTest(writer, i_global)
    /\ UNCHANGED <<tcall, loader_bs, t_i, written, sizes, stopperVars, avgVars,
                   cfg, pc, i, batch, i_global, params, acc, acc_max, best_epoch,
                   epoch_ckpt, best_ckpt, acc_tta, ret, evals, log>>

(***************************************************************************)
(* Trainer.train (src/trainer.py:127-158) with Trainer.train_epoch         *)
(* (src/trainer.py:51-77).  The accuracy an evaluation returns is chosen   *)
(* by the environment.                                                     *)
(***************************************************************************)
\* Python's a % b for a >= 0 and b # 0: the result has the sign of b
PyMod(a, b) ==
    IF b > 0 THEN a % b
    ELSE LET r == a % (0 - b) IN IF r = 0 THEN 0 ELSE r + b

OnCadenceShifted(epoch, test_freq) == PyMod(epoch + 1, test_freq) = 0

\* line 134: i % self.test_freq == 0
OnCadence(epoch, test_freq) == PyMod(epoch, test_freq) = 0

\* Classifier.save(path, meta={'acc': acc}): the live parameters and the meta
Checkpoint(p, a) == [params |-> p, acc |-> a]

\* Classifier.load(path) of a file that was never written is a read failure
LoadFails(ckpt) == ckpt = None

ResultTtaOnly(a_max, a_tta) == a_tta

\* line 158: max(acc_max, acc_tta)
TrainResult(a_max, a_tta) == Max2(a_max, a_tta)

NoLog == [exit |-> "none", epochs |-> 0, reloads |-> 0, tta |-> 0]

\* the Trainer.train variables while no training is being driven
TrainIdle ==
    /\ cfg = [n_max_epoch |-> 0, test_freq |-> 1]
    /\ pc = "idle"
    /\ i = 0
    /\ batch = 0
    /\ i_global = 0
    /\ params = 0
    /\ acc = None
    /\ acc_max = 0
    /\ best_epoch = 0
    /\ epoch_ckpt = <<>>
    /\ best_ckpt = None
    /\ acc_tta = None
    /\ ret = None
    /\ evals = <<>>
    /\ log = NoLog
    /\ writer = NoPoints

\* line 128: acc_max, best_epoch = 0, 0
TrainEnter ==
    /\ pc = "enter"
    /\ acc_max' = 0
    /\ best_epoch' = 0
    /\ i' = 0
    /\ pc' = "for"
    /\ UNCHANGED <<cfg, batch, i_global, params, acc, epoch_ckpt, best_ckpt, acc_tta,
                   ret, evals, log, stopperVars, avgVars, testVars, writer>>

ForNextResetStep ==
    /\ pc = "for"
    /\ i < cfg.n_max_epoch
    /\ pc' = "train_epoch"
    /\ batch' = 0
    /\ i_global' = 0
    /\ log' = [log EXCEPT !.epochs = @ + 1]
    /\ UNCHANGED <<cfg, i, params, acc, acc_max, best_epoch, epoch_ckpt,
                   best_ckpt, acc_tta, ret, evals, stopperVars, avgVars, testVars, writer>>

\* line 129: for i in range(n_max_epoch); lines 131-132 and 52-60: an epoch begins
ForNext ==
    /\ pc = "for"
    /\ i < cfg.n_max_epoch
    /\ pc' = "train_epoch"
    /\ batch' = 0
    /\ log' = [log EXCEPT !.epochs = @ + 1]
    /\ UNCHANGED <<cfg, i, i_global, params, acc, acc_max, best_epoch, epoch_ckpt,
                   best_ckpt, acc_tta, ret, evals, stopperVars, avgVars, testVars, writer>>

\* line 129: range(n_max_epoch) is exhausted; lines 152-153
ForExhausted ==
    /\ pc = "for"
    /\ i >= cfg.n_max_epoch
    /\ pc' = "reload"
    /\ log' = [log EXCEPT !.exit = "exhausted"]
    /\ UNCHANGED <<cfg, i, batch, i_global, params, acc, acc_max, best_epoch, epoch_ckpt,
                   best_ckpt, acc_tta, ret, evals, stopperVars, avgVars, testVars, writer>>

\* lines 61-74: one batch of train_epoch: an optimizer step, self.i_global += 1
TrainBatch ==
    /\ pc = "train_epoch"
    /\ batch < NumTrainBatches
    /\ params' = params + 1
    /\ i_global' = i_global + 1
    /\ batch' = batch + 1
    /\ writer' = LogPoint(writer, "Loss", i_global')
    /\ UNCHANGED <<cfg, pc, i, acc, acc_max, best_epoch, epoch_ckpt, best_ckpt, acc_tta,
                   ret, evals, log, stopperVars, avgVars, testVars>>

\* lines 76-77 and 134: train_epoch returns; the cadence check
Cadence ==
    /\ pc = "train_epoch"
    /\ batch = NumTrainBatches
    /\ IF cfg.test_freq = 0
       THEN pc' = "error" /\ i' = i                 \* ZeroDivisionError
       ELSE IF OnCadence(i, cfg.test_freq)
            THEN pc' = "test" /\ i' = i
            ELSE pc' = "for" /\ i' = i + 1
    /\ writer' = LogPoint(writer, "AvgLoss", i_global)
    /\ UNCHANGED <<cfg, batch, i_global, params, acc, acc_max, best_epoch, epoch_ckpt,
                   best_ckpt, acc_tta, ret, evals, log, stopperVars, avgVars, testVars>>

\* line 136: acc = self.test(n_tta=0)['accuracy']
Evaluate ==
    /\ pc = "test"
    /\ \E a \in AccValues :
         /\ acc' = Some(a)
         /\ evals' = Append(evals, [epoch |-> i, acc |-> a])
    /\ pc' = "save_epoch"
    /\ writer' = LogTest(writer, i_global)
    /\ UNCHANGED <<cfg, i, batch, i_global, params, acc_max, best_epoch, epoch_ckpt,
                   best_ckpt, acc_tta, ret, log, stopperVars, avgVars, testVars>>

\* lines 139-141: the per-epoch checkpoint
SaveEpoch ==
    /\ pc = "save_epoch"
    /\ epoch_ckpt' = [e \in DOMAIN epoch_ckpt \cup {i} |->
                        IF e = i THEN Checkpoint(params, The(acc)) ELSE epoch_ckpt[e]]
    /\ pc' = "compare"
    /\ UNCHANGED <<cfg, i, batch, i_global, params, acc, acc_max, best_epoch,
                   best_ckpt, acc_tta, ret, evals, log, stopperVars, avgVars, testVars, writer>>

UpdateBestOnTie ==
    /\ pc = "compare"
    /\ IF The(acc) >= acc_max
       THEN /\ acc_max' = The(acc)
            /\ best_epoch' = i
            /\ best_ckpt' = Some(Checkpoint(params, The(acc)))
       ELSE UNCHANGED <<acc_max, best_epoch, best_ckpt>>
    /\ pc' = "stopper"
    /\ UNCHANGED <<cfg, i, batch, i_global, params, acc, epoch_ckpt, acc_tta, ret, evals,
                   log, stopperVars, avgVars, testVars, writer>>

\* lines 143-145: a new maximum overwrites the best checkpoint
UpdateBest ==
    /\ pc = "compare"
    /\ IF The(acc) > acc_max
       THEN /\ acc_max' = The(acc)
            /\ best_epoch' = i
            /\ best_ckpt' = Some(Checkpoint(params, The(acc)))
       ELSE UNCHANGED <<acc_max, best_epoch, best_ckpt>>
    /\ pc' = "stopper"
    /\ UNCHANGED <<cfg, i, batch, i_global, params, acc, epoch_ckpt, acc_tta, ret, evals,
                   log, stopperVars, avgVars, testVars, writer>>

StopperStepNoBreak ==
    /\ pc = "stopper"
    /\ stopper' = StopperUpdate(stopper, The(acc))
    /\ fed' = Append(fed, The(acc))
    /\ answers' = Append(answers, CheckCriterion(stopper'))
    /\ IF CheckCriterion(stopper')
       THEN /\ pc' = "for"
            /\ i' = i + 1
            /\ log' = [log EXCEPT !.exit = "criterion"]
       ELSE /\ pc' = "for"
            /\ i' = i + 1
            /\ log' = log
    /\ UNCHANGED <<cfg, batch, i_global, params, acc, acc_max, best_epoch, epoch_ckpt,
                   best_ckpt, acc_tta, ret, evals, avgVars, testVars, writer>>

\* lines 147-150: stopper.update(acc); break if stopper.check_criterion()
StopperStep ==
    /\ pc = "stopper"
    /\ stopper' = StopperUpdate(stopper, The(acc))
    /\ fed' = Append(fed, The(acc))
    /\ answers' = Append(answers, CheckCriterion(stopper'))
    /\ IF CheckCriterion(stopper')
       THEN /\ pc' = "reload"
            /\ i' = i
            /\ log' = [log EXCEPT !.exit = "criterion"]
       ELSE /\ pc' = "for"
            /\ i' = i + 1
            /\ log' = log
    /\ UNCHANGED <<cfg, batch, i_global, params, acc, acc_max, best_epoch, epoch_ckpt,
                   best_ckpt, acc_tta, ret, evals, avgVars, testVars, writer>>

\* line 155: self.classifier.load(self.best_ckpt_path)
Reload ==
    /\ pc = "reload"
    /\ IF LoadFails(best_ckpt)
       THEN pc' = "error" /\ UNCHANGED <<params, log>>
       ELSE /\ params' = The(best_ckpt).params
            /\ log' = [log EXCEPT !.reloads = @ + 1]
            /\ pc' = "tta"
    /\ UNCHANGED <<cfg, i, batch, i_global, acc, acc_max, best_epoch, epoch_ckpt,
                   best_ckpt, acc_tta, ret, evals, stopperVars, avgVars, testVars, writer>>

\* lines 156-157: acc_tta = self.test(n_tta=n_tta)['accuracy']
EvaluateTta ==
    /\ pc = "tta"
    /\ \E a \in AccValues : acc_tta' = Some(a)
    /\ log' = [log EXCEPT !.tta = @ + 1]
    /\ pc' = "return"
    /\ writer' = LogTest(writer, i_global)
    /\ UNCHANGED <<cfg, i, batch, i_global, params, acc, acc_max, best_epoch, epoch_ckpt,
                   best_ckpt, ret, evals, stopperVars, avgVars, testVars>>

\* line 158: return max(acc_max, acc_tta)
Return ==
    /\ pc = "return"
    /\ ret' = Some(TrainResult(acc_max, The(acc_tta)))
    /\ pc' = "done"
    /\ UNCHANGED <<cfg, i, batch, i_global, params, acc, acc_max, best_epoch, epoch_ckpt,
                   best_ckpt, acc_tta, evals, log, stopperVars, avgVars, testVars, writer>>

(***************************************************************************)
(* A Stopper driven on its own: update(v), then check_criterion()          *)
(***************************************************************************)
InitStopper ==
    /\ \E n \in 1..MaxNObservation, d \in 0..MaxDelta : stopper = NewStopper(n, d)
    /\ fed = <<>>
    /\ answers = <<>>
    /\ AvgIdle
    /\ TestIdle
    /\ TrainIdle

Update ==
    /\ Len(answers) = Len(fed)
    /\ Len(fed) < MaxUpdates
    /\ \E v \in StopperValues :
         /\ stopper' = StopperUpdate(stopper, v)
         /\ fed' = Append(fed, v)
    /\ UNCHANGED <<answers, avgVars, testVars, trainVars>>

Check ==
    /\ Len(answers) < Len(fed)
    /\ answers' = Append(answers, CheckCriterion(stopper))
    /\ UNCHANGED <<stopper, fed, avgVars, testVars, trainVars>>

NextStopper == Update \/ Check

SpecStopper == InitStopper /\ [][NextStopper]_vars

(***************************************************************************)
(* What the history of observations says, independently of the Stopper's   *)
(* own fields                                                              *)
(***************************************************************************)
RECURSIVE BestOf(_, _)
\* the best value among the first k observations of seq (0 when k = 0)
BestOf(seq, k) == IF k = 0 THEN 0 ELSE Max2(seq[k], BestOf(seq, k - 1))

\* observation k is at least d below the best value seen up to and including it
Failing(seq, k, d) == BestOf(seq, k) - seq[k] >= d

RECURSIVE FailRun(_, _, _)
\* length of the run of consecutive failing observations that ends at k
FailRun(seq, k, d) ==
    IF k = 0 \/ ~Failing(seq, k, d) THEN 0 ELSE 1 + FailRun(seq, k - 1, d)

\* the updates that complete n consecutive failing observations
Completes(seq, n, d) == {k \in 1..Len(seq) : FailRun(seq, k, d) = n}

Minimum(S) == CHOOSE x \in S : \A y \in S : x <= y

\* seq is the first Len(seq) elements of whole
IsPrefix(seq, whole) ==
    /\ Len(seq) <= Len(whole)
    /\ \A k \in 1..Len(seq) : seq[k] = whole[k]

ExampleFed == <<50, 51, 50, 49, 48>>
ExampleAnswers == <<FALSE, FALSE, FALSE, FALSE, TRUE>>

C2_NewBestIsNoFailure ==
    [][(/\ Len(fed') = Len(fed) + 1
        /\ stopper.delta >= 0
        /\ The(stopper'.cur_val) > stopper.value_max)
       => stopper'.num_fails = 0]_vars

(***************************************************************************)
(* An OnlineAvg driven on its own                                          *)
(***************************************************************************)
StopperIdle == stopper = NewStopper(1, 1) /\ fed = <<>> /\ answers = <<>>

InitAvg == AvgIdle /\ StopperIdle /\ TestIdle /\ TrainIdle

OnlineUpdate ==
    /\ Len(xs) < MaxAvgUpdates
    /\ \E x \in AvgValues :
         /\ online' = AvgUpdate(online, x)
         /\ xs' = Append(xs, x)
    /\ UNCHANGED <<stopperVars, testVars, trainVars>>

NextAvg == OnlineUpdate

SpecAvg == InitAvg /\ [][NextAvg]_vars

RECURSIVE SumOf(_, _)
\* the sum of the first k values of seq
SumOf(seq, k) == IF k = 0 THEN 0 ELSE seq[k] + SumOf(seq, k - 1)

RECURSIVE OddPart(_)
OddPart(k) == IF k % 2 = 0 THEN OddPart(k \div 2) ELSE k

\* the mean of every prefix of seq is a dyadic rational, hence exact in
\* binary floating point
ExactMeans(seq) == \A k \in 1..Len(seq) : SumOf(seq, k) % OddPart(k) = 0

\* C8: avg after the k-th update is the arithmetic mean of the first k
\* observations (for sequences whose means are exact; 2, 4, 6 gives 2, 3, 4),
\* avg is 0 with n = 0 before any update, and n is the number of updates.
C8_AvgIsMean ==
    /\ online.n = Len(xs)
    /\ xs = <<>> => online.avg = Frac(0, 1)
    /\ (xs # <<>> /\ ExactMeans(xs)) =>
          online.avg.num * Len(xs) = SumOf(xs, Len(xs)) * online.avg.den
    /\ xs = <<2>> => online.avg = Frac(2, 1)
    /\ xs = <<2, 4>> => online.avg = Frac(3, 1)
    /\ xs = <<2, 4, 6>> => online.avg = Frac(4, 1)

C8_Witness == xs = <<2, 4, 6>> /\ online.avg = Frac(4, 1) /\ online.n = 3

(***************************************************************************)
(* One call of Trainer.test driven on its own                              *)
(***************************************************************************)
ExampleCall == [batch_size |-> 256, n_tta |-> 0, n_samples |-> 257]

InitTest ==
    /\ AvgIdle
    /\ StopperIdle
    /\ TrainIdle
    /\ \/ \E bs \in 1..MaxBatchSize, t \in 0..MaxTta, n \in 1..MaxSamples :
            tcall = [batch_size |-> bs, n_tta |-> t, n_samples |-> n]
       \/ tcall = ExampleCall
    /\ tpc = "start"
    /\ loader_bs = 0
    /\ t_i = 0
    /\ written = <<>>
    /\ sizes = <<>>

NextTest == TestStart \/ TestBatch \/ TestFinish

SpecTest == InitTest /\ [][NextTest]_vars

\* the rows batch i has assigned
RowsOf(j) == {k \in DOMAIN written : j \in written[k]}

\* C9: for n_samples >= 1 and a loader batch size b >= 1, batch i assigns
\* exactly the rows i*b .. min(i*b + b, n_samples) - 1, as many as the batch
\* has samples; when the loop is over every row 0 .. n_samples - 1 has been
\* assigned exactly once, no assignment fails and none falls outside the
\* arrays (257 samples, b = 256: batch 0 fills 0..255, batch 1 fills 256).
C9_OffsetsCoverOnce ==
    (tcall.n_samples >= 1 /\ loader_bs >= 1) =>
        /\ tpc # "error"
        /\ tpc \in {"loop", "done"} =>
             /\ Len(sizes) = t_i
             /\ \A j \in 0..(t_i - 1) :
                  /\ RowsOf(j) = (j * loader_bs)..
                                 (Min2(j * loader_bs + loader_bs, tcall.n_samples) - 1)
                  /\ Cardinality(RowsOf(j)) = sizes[j + 1]
             /\ \A k \in DOMAIN written : Cardinality(written[k]) <= 1
        /\ tpc = "done" =>
             /\ DOMAIN written = 0..(tcall.n_samples - 1)
             /\ \A k \in DOMAIN written : Cardinality(written[k]) = 1
        /\ (tcall = ExampleCall /\ tpc = "done") =>
             /\ RowsOf(0) = 0..255
             /\ RowsOf(1) = {256}

C9_Witness ==
    /\ tcall = ExampleCall
    /\ tpc = "done"
    /\ sizes = <<256, 1>>
    /\ written[256] = {1}

(***************************************************************************)
(* Trainer.train called once on a freshly constructed Trainer and Stopper  *)
(* (src/train.py:39-50).  The constructors store whatever they are given.  *)
(***************************************************************************)
Init ==
    /\ \E n \in 0..MaxNObservation, d \in TrainDeltas : stopper = NewStopper(n, d)
    /\ fed = <<>>
    /\ answers = <<>>
    /\ AvgIdle
    /\ TestIdle
    /\ \E m \in 0..MaxEpoch, f \in 0..MaxTestFreq :
         cfg = [n_max_epoch |-> m, test_freq |-> f]
    /\ pc = "enter"
    /\ i = 0
    /\ batch = 0
    /\ i_global = 0
    /\ params = 0
    /\ acc = None
    /\ acc_max = 0
    /\ best_epoch = 0
    /\ epoch_ckpt = <<>>
    /\ best_ckpt = None
    /\ acc_tta = None
    /\ ret = None
    /\ evals = <<>>
    /\ log = NoLog
    /\ writer = NoPoints

Next ==
    \/ TrainEnter
    \/ ForNext
    \/ ForExhausted
    \/ TrainBatch
    \/ Cadence
    \/ Evaluate
    \/ SaveEpoch
    \/ UpdateBest
    \/ StopperStep
    \/ Reload
    \/ EvaluateTta
    \/ Return

Spec == Init /\ [][Next]_vars

(***************************************************************************)
(* Properties of Trainer.train                                             *)
(***************************************************************************)
Maximum(S) == CHOOSE x \in S : \A y \in S : x >= y

\* the accuracies of the epochs evaluated so far
EvaluatedAccs == {evals[k].acc : k \in 1..Len(evals)}

\* the loop body of the latest evaluated epoch has finished its checkpointing
EpochCheckpointed == evals # <<>> /\ pc \notin {"save_epoch", "compare"}

\* the configuration is one the constructors are documented to accept
ValidConfig ==
    /\ cfg.n_max_epoch >= 1
    /\ cfg.test_freq >= 1
    /\ stopper.n_observation >= 1
    /\ stopper.delta >= 0

ScenarioAccs == <<60, 62, 61, 60, 59>>

\* the end-to-end scenario: n_max_epoch = 5, test_freq = 1, n_observation = 3,
\* delta = 0 and the accuracies 0.60, 0.62, 0.61, 0.60, 0.59, as far as evaluated
InScenario ==
    /\ cfg = [n_max_epoch |-> 5, test_freq |-> 1]
    /\ stopper.n_observation = 3
    /\ stopper.delta = 0
    /\ Len(evals) <= 5
    /\ \A k \in 1..Len(evals) : evals[k].acc = ScenarioAccs[k]

\* C3: in the end-to-end scenario the stop criterion first triggers at epoch
\* index 4, after all five epochs were trained and evaluated, and the value
\* returned is max(0.62, accuracy of the TTA evaluation).
C3_ScenarioStopsAtEpoch4 ==
    InScenario =>
        /\ log.exit = "criterion" => (i = 4 /\ Len(evals) = 5 /\ log.epochs = 5)
        /\ pc = "done" => (Len(evals) = 5 /\ The(ret) = Max2(62, The(acc_tta)))

\* C4: at the end of every evaluated epoch a best checkpoint exists and the
\* metric in its meta is the maximum of the accuracies evaluated so far, also
\* when all of them are 0.
C4_BestCkptHoldsMax ==
    (ValidConfig /\ EpochCheckpointed) =>
        /\ best_ckpt # None
        /\ The(best_ckpt).acc = Maximum(EvaluatedAccs)

\* C5: train returns max(acc_max, acc_tta), acc_max being the maximum accuracy
\* of the epochs evaluated in the loop and acc_tta the accuracy of the final
\* evaluation; the result is not below the accuracy of any evaluated epoch.
C5_ReturnsMaxOfLoopAndTta ==
    pc = "done" =>
        /\ evals # <<>>
        /\ acc_max = Maximum(EvaluatedAccs)
        /\ The(ret) = Max2(Maximum(EvaluatedAccs), The(acc_tta))
        /\ \A a \in EvaluatedAccs : The(ret) >= a

C5_Witness ==
    /\ pc = "done"
    /\ Len(evals) >= 2
    /\ The(acc_tta) < Maximum(EvaluatedAccs)
    /\ The(ret) = 62

\* C6: with n_max_epoch >= 1, test_freq >= 1 and n_observation >= 1, train
\* always goes on until Done: it never halts anywhere else, trains at most
\* n_max_epoch epochs, leaves the loop by the criterion or by exhausting the
\* epochs, and has reloaded and TTA-evaluated exactly once when it returns.
C6_TrainReachesDone ==
    ValidConfig =>
        /\ pc = "done" \/ ENABLED Next
        /\ log.epochs <= cfg.n_max_epoch
        /\ pc \in {"reload", "tta", "return", "done"} =>
             log.exit \in {"criterion", "exhausted"}
        /\ pc = "done" => (log.reloads = 1 /\ log.tta = 1)

\* C7: epoch i is evaluated iff i mod test_freq = 0; an epoch off the cadence
\* runs no evaluation, leaves the checkpoints, acc_max, best_epoch and the
\* Stopper unchanged and passes control straight to epoch i + 1.
C7_OffCadenceEpochIsSkipped ==
    /\ [](cfg.test_freq >= 1 =>
            /\ \A k \in 1..Len(evals) : evals[k].epoch % cfg.test_freq = 0
            /\ \A e \in 0..(i - 1) :
                 (e % cfg.test_freq = 0) <=> (\E k \in 1..Len(evals) : evals[k].epoch = e)
            /\ pc \in {"test", "save_epoch", "compare", "stopper"} =>
                 i % cfg.test_freq = 0)
    /\ [][(/\ cfg.test_freq >= 1
           /\ pc = "train_epoch"
           /\ batch = NumTrainBatches)
          => IF i % cfg.test_freq = 0
             THEN pc' = "test" /\ i' = i
             ELSE /\ pc' = "for"
                  /\ i' = i + 1
                  /\ UNCHANGED <<epoch_ckpt, best_ckpt, acc_max, best_epoch, stopper,
                                 fed, answers, evals>>]_vars

C7_Witness ==
    /\ cfg.test_freq = 2
    /\ pc = "for"
    /\ i = 2
    /\ Len(evals) = 1
    /\ DOMAIN epoch_ckpt = {0}

\* C10: an invalid configuration (n_observation <= 0, delta < 0, test_freq <= 0)
\* is rejected when the Stopper and the Trainer are constructed: no training
\* epoch, evaluation or stop decision runs with it and it raises no error in
\* the middle of the run.
C10_InvalidConfigRejected ==
    (stopper.n_observation <= 0 \/ stopper.delta < 0 \/ cfg.test_freq <= 0) =>
        /\ log.epochs = 0
        /\ i_global = 0
        /\ evals = <<>>
        /\ answers = <<>>
        /\ pc # "error"

(***************************************************************************)
(* Further properties of the Stopper                                       *)
(***************************************************************************)
\* the step is a call of Stopper.update
IsUpdateStep == Len(fed') = Len(fed) + 1

C12_ValueMaxIsRunningMax ==
    /\ [](stopper.value_max = BestOf(fed, Len(fed)))
    /\ [][/\ stopper'.value_max >= stopper.value_max
          /\ Len(answers') # Len(answers) => stopper' = stopper]_vars

C12_Witness ==
    /\ Len(fed) = 3
    /\ Len(answers) = 3
    /\ fed[2] = 51
    /\ fed[3] = 48
    /\ stopper.value_max = 51

\* C13: once check_criterion() is true after an update, it is still true
\* after the next update if that one is again a failing observation (stated
\* for delta > 0, where a failing observation is unambiguous).
C13_StopSignalPersists ==
    stopper.delta > 0 =>
    \A k \in 1..(Len(answers) - 1) :
        (answers[k] /\ Failing(fed, k + 1, stopper.delta)) => answers[k + 1]

(***************************************************************************)
(* Further properties of Trainer.train and Trainer.test                    *)
(***************************************************************************)
\* C14: in every state, the one between the write of the per-epoch checkpoint
\* and the write of the best checkpoint included, the metric of the best
\* checkpoint is >= the metric of every per-epoch checkpoint written so far
\* (stated here only for the states in which a best checkpoint exists).
C14_BestCkptDominates ==
    (ValidConfig /\ best_ckpt # None) =>
        \A e \in DOMAIN epoch_ckpt : The(best_ckpt).acc >= epoch_ckpt[e].acc

\* the evaluations with the maximum accuracy
BestEvals == {k \in 1..Len(evals) : evals[k].acc = Maximum(EvaluatedAccs)}

\* C15: the best checkpoint is overwritten only at an evaluated epoch whose
\* accuracy strictly exceeds that of every earlier evaluated epoch (not on a
\* tie); its parameters and metric are those saved at best_epoch, the earliest
\* evaluated epoch with the maximum accuracy, and these are the parameters
\* live after the reload.
C15_BestCkptIsEarliestMax ==
    /\ []((EpochCheckpointed /\ best_ckpt # None) =>
            /\ best_epoch \in DOMAIN epoch_ckpt
            /\ The(best_ckpt) = epoch_ckpt[best_epoch]
            /\ The(best_ckpt).acc = Maximum(EvaluatedAccs)
            /\ \E k \in BestEvals : evals[k].epoch = best_epoch
            /\ \A k \in BestEvals : evals[k].epoch >= best_epoch
            /\ pc \in {"tta", "return", "done"} =>
                 params = epoch_ckpt[best_epoch].params)
    /\ [][best_ckpt' # best_ckpt =>
            /\ pc = "compare"
            /\ \A k \in 1..(Len(evals) - 1) : The(acc) > evals[k].acc
            /\ best_ckpt' = Some(Checkpoint(params, The(acc)))]_vars

C15_Witness ==
    /\ pc = "done"
    /\ Len(evals) = 3
    /\ evals[1].acc = 59
    /\ evals[2].acc = 61
    /\ evals[3].acc = 61
    /\ best_epoch = evals[2].epoch
    /\ params = epoch_ckpt[best_epoch].params

\* C16: the model parameters change only by an optimizer step inside a
\* training epoch and by the single reload of the best checkpoint; once the
\* stop criterion has held or the reload has happened no training epoch or
\* optimizer step follows, and the TTA evaluation comes after the reload.
C16_ParamsMutationOrder ==
    /\ [](/\ log.reloads <= 1
          /\ log.tta <= log.reloads
          /\ pc = "train_epoch" => (log.exit = "none" /\ log.reloads = 0))
    /\ [][/\ params' # params =>
               \/ pc = "train_epoch" /\ params' = params + 1 /\ i_global' = i_global + 1
               \/ pc = "reload" /\ log.reloads = 0 /\ params' = The(best_ckpt).params
          /\ (log.exit = "criterion" \/ log.reloads > 0 \/ (answers # <<>> /\ answers[Len(answers)])) =>
               (i_global' = i_global /\ log'.epochs = log.epochs)
          /\ log'.tta # log.tta => log.reloads = 1]_vars

C16_Witness ==
    /\ pc = "done"
    /\ log.exit = "criterion"
    /\ log.reloads = 1
    /\ log.tta = 1
    /\ params < i_global

\* C17: i_global starts at 0, grows by exactly 1 per training batch and by
\* nothing else, and is not reset between epochs, so after k epochs of B
\* batches it is k * B; the steps of successive logged points never decrease
\* and every 'Loss' point has a step strictly above the previous one's.
C17_GlobalStepCountsBatches ==
    /\ [](/\ i_global = IF pc = "train_epoch"
                        THEN (log.epochs - 1) * NumTrainBatches + batch
                        ELSE log.epochs * NumTrainBatches
          /\ writer.n_loss = i_global
          /\ writer.step <= i_global)
    /\ [][/\ i_global' # i_global =>
               (pc = "train_epoch" /\ batch' = batch + 1 /\ i_global' = i_global + 1)
          /\ writer'.step >= writer.step
          /\ writer'.n_loss # writer.n_loss =>
               (writer'.n_loss = writer.n_loss + 1 /\ writer'.loss_step > writer.loss_step)]_vars

C17_Witness ==
    /\ pc = "done"
    /\ log.epochs = 3
    /\ i_global = 3 * NumTrainBatches
    /\ writer.loss_step = i_global

\* C18: for batch_size >= 1 and n_tta >= 1 the augmented path uses an
\* effective batch size e = batch_size / n_tta with 1 <= e and
\* e * n_tta <= batch_size, also when n_tta does not divide batch_size or
\* exceeds it.
C18_EffectiveBatchSizeUsable ==
    (tcall.batch_size >= 1 /\ tcall.n_tta >= 1 /\ tpc # "start") =>
        /\ loader_bs >= 1
        /\ loader_bs * tcall.n_tta <= tcall.batch_size
        /\ tpc # "error"

\* C19: whenever train reaches the reload of the best checkpoint, this run
\* has written a best checkpoint, for every n_max_epoch >= 0 and
\* test_freq >= 1 and every sequence of accuracies.
C19_ReloadFindsBestCkpt ==
    (cfg.test_freq >= 1 /\ stopper.n_observation >= 1 /\ stopper.delta >= 0) =>
        (pc = "reload" => best_ckpt # None)

\* C20: after every evaluated epoch acc_max and stopper.value_max agree and
\* equal the maximum of 0 and the accuracies evaluated so far; inside the loop
\* num_fails never exceeds n_observation (for n_observation >= 1).
C20_TrackersAgree ==
    /\ Len(fed) = Len(evals) =>
         /\ acc_max = stopper.value_max
         /\ acc_max = Maximum(EvaluatedAccs \cup {0})
    /\ stopper.n_observation >= 1 => stopper.num_fails <= stopper.n_observation

C20_Witness ==
    /\ pc = "reload"
    /\ log.exit = "criterion"
    /\ Len(evals) = 5
    /\ stopper.n_observation = 3
    /\ stopper.num_fails = 3
    /\ acc_max = 62
    /\ stopper.value_max = 62

====
